---- MODULE Spec2Model ----
(***************************************************************************)
(* Model of the ZMK input processor "absolute to relative"                 *)
(* (drivers/input/input_processor_absolute_to_relative.c).                 *)
(*                                                                         *)
(* One device instance handles one input event at a time.  The instance    *)
(* data (previous_x/y, previous_dx/dy, touching) and its read-only config  *)
(* are the program state; every action delivers one event to               *)
(* absolute_to_relative_handle_event and records the event as it went in,  *)
(* the event as it came out, the return code and the functions called.     *)
(***************************************************************************)
EXTENDS Integers, Sequences, FiniteSets, TLC

VARIABLES
    config,     \* struct absolute_to_relative_config of the instance
    data,       \* struct absolute_to_relative_data of the instance
    twin,       \* data of a second instance whose suppress_btn_touch is the
                \* opposite one, handed the same events
    last,       \* the last call of handle_event: event in, event out, ret, calls
    hist,       \* per axis: the last two samples process_axis handled since touch_init
    restarted,  \* the last touch_init came from a contact-start right after a contact-end
    rearmed     \* the last touch_init came from a contact-start handled while touching

vars == <<config, data, twin, last, hist, restarted, rearmed>>

----------------------------------------------------------------------------
(* Program constants *)

COORD_UNINITIALIZED == 65535
COORD_INVALID_ZERO == 4095

INPUT_EV_SYN == 0
INPUT_EV_KEY == 1
INPUT_EV_REL == 2
INPUT_EV_ABS == 3

INPUT_BTN_TOUCH == 330
INPUT_BTN_0 == 256
INPUT_BTN_1 == 257

INPUT_ABS_X == 0
INPUT_ABS_Y == 1
INPUT_ABS_Z == 2
INPUT_REL_X == 0
INPUT_REL_Y == 1

ZMK_INPUT_PROC_CONTINUE == 0
ZMK_INPUT_PROC_STOP == 1

----------------------------------------------------------------------------
(* Fixed-width arithmetic *)

\* conversion of an int to uint16_t
ToU16(v) == v % 65536

\* conversion of an int to int16_t (two's complement)
ToInt16(v) == LET m == v % 65536 IN IF m >= 32768 THEN m - 65536 ELSE m

\* mutant: a division by 2, which rounds toward zero
AShr1_toward_zero(v) == IF v >= 0 THEN v \div 2 ELSE -((-v) \div 2)

\* v >> 1 on a signed int: arithmetic shift, rounds toward minus infinity
AShr1(v) == v \div 2

----------------------------------------------------------------------------
(* Inputs *)

SamplesX == {100, 110, 115, 65535}
SamplesY == {498, 500, 65535}
TouchValues == {0, 1, 2, -1}
ButtonValues == {0, 1}

Event(t, c, v, s) == [type |-> t, code |-> c, value |-> v, sync |-> s]

ContactEvents == {Event(INPUT_EV_KEY, INPUT_BTN_TOUCH, v, s) : v \in TouchValues, s \in BOOLEAN}
AuxEvents == {Event(INPUT_EV_KEY, INPUT_BTN_0, v, s) : v \in ButtonValues, s \in BOOLEAN}
AxisEvents ==
    {Event(INPUT_EV_ABS, INPUT_ABS_X, v, s) : v \in SamplesX, s \in BOOLEAN}
    \cup {Event(INPUT_EV_ABS, INPUT_ABS_Y, v, s) : v \in SamplesY, s \in BOOLEAN}
OtherEvents ==
    {Event(INPUT_EV_KEY, INPUT_BTN_1, 1, s) : s \in BOOLEAN}
    \cup {Event(INPUT_EV_ABS, INPUT_ABS_Z, 7, s) : s \in BOOLEAN}
    \cup {Event(INPUT_EV_REL, INPUT_REL_X, 3, s) : s \in BOOLEAN}
    \cup {Event(INPUT_EV_ABS, INPUT_BTN_TOUCH, 1, s) : s \in BOOLEAN}
    \cup {Event(INPUT_EV_ABS, COORD_INVALID_ZERO, 5, FALSE)}

----------------------------------------------------------------------------
(* The code *)

\* mutant: the Y axis is left out of the reset
touch_init_x_only(d) ==
    [d EXCEPT !.previous_x = COORD_UNINITIALIZED,
              !.previous_dx = 0]

touch_init(d) ==
    [d EXCEPT !.previous_x = COORD_UNINITIALIZED,
              !.previous_y = COORD_UNINITIALIZED,
              !.previous_dx = 0,
              !.previous_dy = 0]

\* mutant: the first report is stored but not signalled for suppression
process_axis_first_not_suppressed(event, previous_pos, previous_delta, rel_code) ==
    LET value == ToU16(event.value)
        prev == previous_pos
    IN  IF prev = COORD_UNINITIALIZED
        THEN [event |-> [event EXCEPT !.code = COORD_INVALID_ZERO, !.sync = FALSE],
              previous_pos |-> value,
              previous_delta |-> 0,
              result |-> FALSE]
        ELSE LET delta == ToInt16(ToInt16(value) - ToInt16(prev))
                 smooth_delta == ToInt16(AShr1(delta + previous_delta))
             IN  [event |-> [event EXCEPT !.type = INPUT_EV_REL,
                                          !.code = rel_code,
                                          !.value = smooth_delta],
                  previous_pos |-> value,
                  previous_delta |-> delta,
                  result |-> FALSE]

\* mutant: the emitted event has its sync flag cleared like a suppressed one
process_axis_sync_cleared(event, previous_pos, previous_delta, rel_code) ==
    LET value == ToU16(event.value)
        prev == previous_pos
    IN  IF prev = COORD_UNINITIALIZED
        THEN [event |-> [event EXCEPT !.code = COORD_INVALID_ZERO, !.sync = FALSE],
              previous_pos |-> value,
              previous_delta |-> 0,
              result |-> TRUE]
        ELSE LET delta == ToInt16(ToInt16(value) - ToInt16(prev))
                 smooth_delta == ToInt16(AShr1(delta + previous_delta))
             IN  [event |-> [event EXCEPT !.type = INPUT_EV_REL,
                                          !.code = rel_code,
                                          !.value = smooth_delta,
                                          !.sync = FALSE],
                  previous_pos |-> value,
                  previous_delta |-> delta,
                  result |-> FALSE]

\* mutant: the sum of the deltas is held in an int16_t before the shift
process_axis_wrapped_sum(event, previous_pos, previous_delta, rel_code) ==
    LET value == ToU16(event.value)
        prev == previous_pos
    IN  IF prev = COORD_UNINITIALIZED
        THEN [event |-> [event EXCEPT !.code = COORD_INVALID_ZERO, !.sync = FALSE],
              previous_pos |-> value,
              previous_delta |-> 0,
              result |-> TRUE]
        ELSE LET delta == ToInt16(ToInt16(value) - ToInt16(prev))
                 smooth_delta == ToInt16(AShr1(ToInt16(delta + previous_delta)))
             IN  [event |-> [event EXCEPT !.type = INPUT_EV_REL,
                                          !.code = rel_code,
                                          !.value = smooth_delta],
                  previous_pos |-> value,
                  previous_delta |-> delta,
                  result |-> FALSE]

\* mutant: the first report is stopped without marking the event
process_axis_unmarked(event, previous_pos, previous_delta, rel_code) ==
    LET value == ToU16(event.value)
        prev == previous_pos
    IN  IF prev = COORD_UNINITIALIZED
        THEN [event |-> event,
              previous_pos |-> value,
              previous_delta |-> 0,
              result |-> TRUE]
        ELSE LET delta == ToInt16(ToInt16(value) - ToInt16(prev))
                 smooth_delta == ToInt16(AShr1(delta + previous_delta))
             IN  [event |-> [event EXCEPT !.type = INPUT_EV_REL,
                                          !.code = rel_code,
                                          !.value = smooth_delta],
                  previous_pos |-> value,
                  previous_delta |-> delta,
                  result |-> FALSE]

\* returns the event, *previous_pos, *previous_delta and the bool result
process_axis(event, previous_pos, previous_delta, rel_code) ==
    LET value == ToU16(event.value)
        prev == previous_pos
    IN  IF prev = COORD_UNINITIALIZED
        THEN [event |-> [event EXCEPT !.code = COORD_INVALID_ZERO, !.sync = FALSE],
              previous_pos |-> value,
              previous_delta |-> 0,
              result |-> TRUE]
        ELSE LET delta == ToInt16(ToInt16(value) - ToInt16(prev))
                 smooth_delta == ToInt16(AShr1(delta + previous_delta))
             IN  [event |-> [event EXCEPT !.type = INPUT_EV_REL,
                                          !.code = rel_code,
                                          !.value = smooth_delta],
                  previous_pos |-> value,
                  previous_delta |-> delta,
                  result |-> FALSE]

\* mutant: the suppression returns before the touch state is updated
handle_touch_button_suppress_first(event, d, cfg) ==
    IF cfg.suppress_btn_touch
    THEN [data |-> d,
          event |-> [event EXCEPT !.code = COORD_INVALID_ZERO, !.sync = FALSE],
          ret |-> ZMK_INPUT_PROC_STOP,
          calls |-> <<"handle_touch_button">>]
    ELSE [data |-> IF event.value = 1
                   THEN touch_init([d EXCEPT !.touching = TRUE])
                   ELSE [d EXCEPT !.touching = FALSE],
          event |-> event,
          ret |-> ZMK_INPUT_PROC_CONTINUE,
          calls |-> IF event.value = 1
                    THEN <<"handle_touch_button", "touch_init">>
                    ELSE <<"handle_touch_button">>]

\* mutant: the coordinates are initialized on release too
handle_touch_button_init_on_release(event, d, cfg) ==
    LET d1 == touch_init([d EXCEPT !.touching = (event.value = 1)])
        calls == <<"handle_touch_button", "touch_init">>
    IN  IF cfg.suppress_btn_touch
        THEN [data |-> d1,
              event |-> [event EXCEPT !.code = COORD_INVALID_ZERO, !.sync = FALSE],
              ret |-> ZMK_INPUT_PROC_STOP,
              calls |-> calls]
        ELSE [data |-> d1, event |-> event, ret |-> ZMK_INPUT_PROC_CONTINUE,
              calls |-> calls]

\* mutant: the coordinates are initialized only when the touch was off
handle_touch_button_init_on_edge(event, d, cfg) ==
    LET d1 == IF event.value = 1
              THEN IF d.touching THEN d ELSE touch_init([d EXCEPT !.touching = TRUE])
              ELSE [d EXCEPT !.touching = FALSE]
        calls == IF event.value = 1 /\ ~d.touching
                 THEN <<"handle_touch_button", "touch_init">>
                 ELSE <<"handle_touch_button">>
    IN  IF cfg.suppress_btn_touch
        THEN [data |-> d1,
              event |-> [event EXCEPT !.code = COORD_INVALID_ZERO, !.sync = FALSE],
              ret |-> ZMK_INPUT_PROC_STOP,
              calls |-> calls]
        ELSE [data |-> d1, event |-> event, ret |-> ZMK_INPUT_PROC_CONTINUE,
              calls |-> calls]

\* mutant: every nonzero value counts as a touch start
handle_touch_button_nonzero(event, d, cfg) ==
    LET d1 == IF event.value # 0
              THEN touch_init([d EXCEPT !.touching = TRUE])
              ELSE [d EXCEPT !.touching = FALSE]
        calls == IF event.value # 0
                 THEN <<"handle_touch_button", "touch_init">>
                 ELSE <<"handle_touch_button">>
    IN  IF cfg.suppress_btn_touch
        THEN [data |-> d1,
              event |-> [event EXCEPT !.code = COORD_INVALID_ZERO, !.sync = FALSE],
              ret |-> ZMK_INPUT_PROC_STOP,
              calls |-> calls]
        ELSE [data |-> d1, event |-> event, ret |-> ZMK_INPUT_PROC_CONTINUE,
              calls |-> calls]

handle_touch_button(event, d, cfg) ==
    LET d1 == IF event.value = 1
              THEN touch_init([d EXCEPT !.touching = TRUE])
              ELSE [d EXCEPT !.touching = FALSE]
        calls == IF event.value = 1
                 THEN <<"handle_touch_button", "touch_init">>
                 ELSE <<"handle_touch_button">>
    IN  IF cfg.suppress_btn_touch
        THEN [data |-> d1,
              event |-> [event EXCEPT !.code = COORD_INVALID_ZERO, !.sync = FALSE],
              ret |-> ZMK_INPUT_PROC_STOP,
              calls |-> calls]
        ELSE [data |-> d1, event |-> event, ret |-> ZMK_INPUT_PROC_CONTINUE,
              calls |-> calls]

\* mutant: the option of the other button is read (copy of handle_touch_button)
handle_button_suppress_wrong_option(event, cfg) ==
    IF cfg.suppress_btn_touch
    THEN [event |-> [event EXCEPT !.code = COORD_INVALID_ZERO, !.sync = FALSE],
          ret |-> ZMK_INPUT_PROC_STOP]
    ELSE [event |-> event, ret |-> ZMK_INPUT_PROC_CONTINUE]

handle_button_suppress(event, cfg) ==
    IF cfg.suppress_btn0
    THEN [event |-> [event EXCEPT !.code = COORD_INVALID_ZERO, !.sync = FALSE],
          ret |-> ZMK_INPUT_PROC_STOP]
    ELSE [event |-> event, ret |-> ZMK_INPUT_PROC_CONTINUE]

\* mutant: the touching test is missing, axis events are always converted
absolute_to_relative_handle_event_no_gate(cfg, d, event) ==
    IF event.type = INPUT_EV_KEY /\ event.code = INPUT_BTN_TOUCH
    THEN handle_touch_button(event, d, cfg)
    ELSE IF event.type = INPUT_EV_KEY /\ event.code = INPUT_BTN_0
    THEN LET b == handle_button_suppress(event, cfg)
         IN  [data |-> d, event |-> b.event, ret |-> b.ret,
              calls |-> <<"handle_button_suppress">>]
    ELSE IF event.type # INPUT_EV_ABS
    THEN [data |-> d, event |-> event, ret |-> ZMK_INPUT_PROC_CONTINUE, calls |-> <<>>]
    ELSE IF event.code = INPUT_ABS_X
    THEN LET r == process_axis(event, d.previous_x, d.previous_dx, INPUT_REL_X)
         IN  [data |-> [d EXCEPT !.previous_x = r.previous_pos,
                                 !.previous_dx = r.previous_delta],
              event |-> r.event,
              ret |-> IF r.result THEN ZMK_INPUT_PROC_STOP ELSE ZMK_INPUT_PROC_CONTINUE,
              calls |-> <<"process_axis_x">>]
    ELSE IF event.code = INPUT_ABS_Y
    THEN LET r == process_axis(event, d.previous_y, d.previous_dy, INPUT_REL_Y)
         IN  [data |-> [d EXCEPT !.previous_y = r.previous_pos,
                                 !.previous_dy = r.previous_delta],
              event |-> r.event,
              ret |-> IF r.result THEN ZMK_INPUT_PROC_STOP ELSE ZMK_INPUT_PROC_CONTINUE,
              calls |-> <<"process_axis_y">>]
    ELSE [data |-> d, event |-> event, ret |-> ZMK_INPUT_PROC_CONTINUE, calls |-> <<>>]

\* mutant: an axis event outside a touch starts the touch by itself
absolute_to_relative_handle_event_implicit_touch(cfg, d, event) ==
    IF event.type = INPUT_EV_KEY /\ event.code = INPUT_BTN_TOUCH
    THEN handle_touch_button(event, d, cfg)
    ELSE IF event.type = INPUT_EV_KEY /\ event.code = INPUT_BTN_0
    THEN LET b == handle_button_suppress(event, cfg)
         IN  [data |-> d, event |-> b.event, ret |-> b.ret,
              calls |-> <<"handle_button_suppress">>]
    ELSE IF ~d.touching \/ event.type # INPUT_EV_ABS
    THEN [data |-> [d EXCEPT !.touching = (event.type = INPUT_EV_ABS)], event |-> event, ret |-> ZMK_INPUT_PROC_CONTINUE, calls |-> <<>>]
    ELSE IF event.code = INPUT_ABS_X
    THEN LET r == process_axis(event, d.previous_x, d.previous_dx, INPUT_REL_X)
         IN  [data |-> [d EXCEPT !.previous_x = r.previous_pos,
                                 !.previous_dx = r.previous_delta],
              event |-> r.event,
              ret |-> IF r.result THEN ZMK_INPUT_PROC_STOP ELSE ZMK_INPUT_PROC_CONTINUE,
              calls |-> <<"process_axis_x">>]
    ELSE IF event.code = INPUT_ABS_Y
    THEN LET r == process_axis(event, d.previous_y, d.previous_dy, INPUT_REL_Y)
         IN  [data |-> [d EXCEPT !.previous_y = r.previous_pos,
                                 !.previous_dy = r.previous_delta],
              event |-> r.event,
              ret |-> IF r.result THEN ZMK_INPUT_PROC_STOP ELSE ZMK_INPUT_PROC_CONTINUE,
              calls |-> <<"process_axis_y">>]
    ELSE [data |-> d, event |-> event, ret |-> ZMK_INPUT_PROC_CONTINUE, calls |-> <<>>]

\* mutant: every absolute code other than X is converted as Y
absolute_to_relative_handle_event_else_y(cfg, d, event) ==
    IF event.type = INPUT_EV_KEY /\ event.code = INPUT_BTN_TOUCH
    THEN handle_touch_button(event, d, cfg)
    ELSE IF event.type = INPUT_EV_KEY /\ event.code = INPUT_BTN_0
    THEN LET b == handle_button_suppress(event, cfg)
         IN  [data |-> d, event |-> b.event, ret |-> b.ret,
              calls |-> <<"handle_button_suppress">>]
    ELSE IF ~d.touching \/ event.type # INPUT_EV_ABS
    THEN [data |-> d, event |-> event, ret |-> ZMK_INPUT_PROC_CONTINUE, calls |-> <<>>]
    ELSE IF event.code = INPUT_ABS_X
    THEN LET r == process_axis(event, d.previous_x, d.previous_dx, INPUT_REL_X)
         IN  [data |-> [d EXCEPT !.previous_x = r.previous_pos,
                                 !.previous_dx = r.previous_delta],
              event |-> r.event,
              ret |-> IF r.result THEN ZMK_INPUT_PROC_STOP ELSE ZMK_INPUT_PROC_CONTINUE,
              calls |-> <<"process_axis_x">>]
    ELSE IF event.code # INPUT_ABS_X
    THEN LET r == process_axis(event, d.previous_y, d.previous_dy, INPUT_REL_Y)
         IN  [data |-> [d EXCEPT !.previous_y = r.previous_pos,
                                 !.previous_dy = r.previous_delta],
              event |-> r.event,
              ret |-> IF r.result THEN ZMK_INPUT_PROC_STOP ELSE ZMK_INPUT_PROC_CONTINUE,
              calls |-> <<"process_axis_y">>]
    ELSE [data |-> d, event |-> event, ret |-> ZMK_INPUT_PROC_CONTINUE, calls |-> <<>>]

\* mutant: the Y axis is converted with the delta of the X axis
absolute_to_relative_handle_event_shared_delta(cfg, d, event) ==
    IF event.type = INPUT_EV_KEY /\ event.code = INPUT_BTN_TOUCH
    THEN handle_touch_button(event, d, cfg)
    ELSE IF event.type = INPUT_EV_KEY /\ event.code = INPUT_BTN_0
    THEN LET b == handle_button_suppress(event, cfg)
         IN  [data |-> d, event |-> b.event, ret |-> b.ret,
              calls |-> <<"handle_button_suppress">>]
    ELSE IF ~d.touching \/ event.type # INPUT_EV_ABS
    THEN [data |-> d, event |-> event, ret |-> ZMK_INPUT_PROC_CONTINUE, calls |-> <<>>]
    ELSE IF event.code = INPUT_ABS_X
    THEN LET r == process_axis(event, d.previous_x, d.previous_dx, INPUT_REL_X)
         IN  [data |-> [d EXCEPT !.previous_x = r.previous_pos,
                                 !.previous_dx = r.previous_delta],
              event |-> r.event,
              ret |-> IF r.result THEN ZMK_INPUT_PROC_STOP ELSE ZMK_INPUT_PROC_CONTINUE,
              calls |-> <<"process_axis_x">>]
    ELSE IF event.code = INPUT_ABS_Y
    THEN LET r == process_axis(event, d.previous_y, d.previous_dx, INPUT_REL_Y)
         IN  [data |-> [d EXCEPT !.previous_y = r.previous_pos,
                                 !.previous_dx = r.previous_delta],
              event |-> r.event,
              ret |-> IF r.result THEN ZMK_INPUT_PROC_STOP ELSE ZMK_INPUT_PROC_CONTINUE,
              calls |-> <<"process_axis_y">>]
    ELSE [data |-> d, event |-> event, ret |-> ZMK_INPUT_PROC_CONTINUE, calls |-> <<>>]

absolute_to_relative_handle_event(cfg, d, event) ==
    IF event.type = INPUT_EV_KEY /\ event.code = INPUT_BTN_TOUCH
    THEN handle_touch_button(event, d, cfg)
    ELSE IF event.type = INPUT_EV_KEY /\ event.code = INPUT_BTN_0
    THEN LET b == handle_button_suppress(event, cfg)
         IN  [data |-> d, event |-> b.event, ret |-> b.ret,
              calls |-> <<"handle_button_suppress">>]
    ELSE IF ~d.touching \/ event.type # INPUT_EV_ABS
    THEN [data |-> d, event |-> event, ret |-> ZMK_INPUT_PROC_CONTINUE, calls |-> <<>>]
    ELSE IF event.code = INPUT_ABS_X
    THEN LET r == process_axis(event, d.previous_x, d.previous_dx, INPUT_REL_X)
         IN  [data |-> [d EXCEPT !.previous_x = r.previous_pos,
                                 !.previous_dx = r.previous_delta],
              event |-> r.event,
              ret |-> IF r.result THEN ZMK_INPUT_PROC_STOP ELSE ZMK_INPUT_PROC_CONTINUE,
              calls |-> <<"process_axis_x">>]
    ELSE IF event.code = INPUT_ABS_Y
    THEN LET r == process_axis(event, d.previous_y, d.previous_dy, INPUT_REL_Y)
         IN  [data |-> [d EXCEPT !.previous_y = r.previous_pos,
                                 !.previous_dy = r.previous_delta],
              event |-> r.event,
              ret |-> IF r.result THEN ZMK_INPUT_PROC_STOP ELSE ZMK_INPUT_PROC_CONTINUE,
              calls |-> <<"process_axis_y">>]
    ELSE [data |-> d, event |-> event, ret |-> ZMK_INPUT_PROC_CONTINUE, calls |-> <<>>]

\* static initializer of the instance data, then absolute_to_relative_init
InitialData ==
    [touching |-> FALSE,
     previous_x |-> COORD_UNINITIALIZED,
     previous_y |-> COORD_UNINITIALIZED,
     previous_dx |-> 0,
     previous_dy |-> 0]

Configs == [suppress_btn_touch : BOOLEAN, suppress_btn0 : BOOLEAN]

TwinConfig(cfg) == [cfg EXCEPT !.suppress_btn_touch = ~cfg.suppress_btn_touch]

----------------------------------------------------------------------------
(* Observation of the calls *)

Called(calls, f) == \E i \in 1..Len(calls) : calls[i] = f

\* the last two of the samples a window has seen
Push(h, v) == IF Len(h) < 2 THEN Append(h, v) ELSE <<h[2], v>>

HistAfter(h, calls, event) ==
    LET h0 == IF Called(calls, "touch_init") THEN [x |-> <<>>, y |-> <<>>] ELSE h
    IN  IF Called(calls, "process_axis_x")
        THEN [h0 EXCEPT !.x = Push(h0.x, ToU16(event.value))]
        ELSE IF Called(calls, "process_axis_y")
        THEN [h0 EXCEPT !.y = Push(h0.y, ToU16(event.value))]
        ELSE h0

IsContact(e) == e.type = INPUT_EV_KEY /\ e.code = INPUT_BTN_TOUCH
IsContactStart(e) == IsContact(e) /\ e.value = 1
IsContactEnd(e) == IsContact(e) /\ e.value # 1
IsAux(e) == e.type = INPUT_EV_KEY /\ e.code = INPUT_BTN_0
IsAxisX(e) == e.type = INPUT_EV_ABS /\ e.code = INPUT_ABS_X
IsAxisY(e) == e.type = INPUT_EV_ABS /\ e.code = INPUT_ABS_Y

RearmedAfter(r, wasTouching, calls) ==
    IF Called(calls, "touch_init") THEN wasTouching
    ELSE IF Called(calls, "handle_touch_button") THEN FALSE
    ELSE r

RestartedAfter(r, prevIn, calls) ==
    IF Called(calls, "touch_init") THEN IsContactEnd(prevIn)
    ELSE IF Called(calls, "handle_touch_button") THEN FALSE
    ELSE r

----------------------------------------------------------------------------
(* The state machine *)

NoEvent == Event(INPUT_EV_SYN, 0, 0, FALSE)

Init ==
    /\ config \in Configs
    /\ data = InitialData
    /\ twin = InitialData
    /\ last = [in |-> NoEvent, out |-> NoEvent, ret |-> ZMK_INPUT_PROC_CONTINUE,
               calls |-> <<>>]
    /\ hist = [x |-> <<>>, y |-> <<>>]
    /\ restarted = FALSE
    /\ rearmed = FALSE

\* one call of the handle_event driver API on the instance (and on its twin)
Deliver(event) ==
    LET r == absolute_to_relative_handle_event(config, data, event)
        t == absolute_to_relative_handle_event(TwinConfig(config), twin, event)
    IN  /\ data' = r.data
        /\ twin' = t.data
        /\ last' = [in |-> event, out |-> r.event, ret |-> r.ret, calls |-> r.calls]
        /\ hist' = HistAfter(hist, r.calls, event)
        /\ restarted' = RestartedAfter(restarted, last.in, r.calls)
        /\ rearmed' = RearmedAfter(rearmed, data.touching, r.calls)
        /\ UNCHANGED config

ContactSignal == \E e \in ContactEvents : Deliver(e)
AuxButton == \E e \in AuxEvents : Deliver(e)
AxisSample == \E e \in AxisEvents : Deliver(e)
OtherEvent == \E e \in OtherEvents : Deliver(e)

Next == ContactSignal \/ AuxButton \/ AxisSample \/ OtherEvent

Spec == Init /\ [][Next]_vars

----------------------------------------------------------------------------
(* One contact with samples over the whole 16-bit range: the instance has     *)
(* handled a contact-start and then receives axis samples only.               *)

WideSamplesX == {0, 1, 3, 32767, 32768, 65534, 65535}
WideSamplesY == {497, 498, 500}

WideAxisEventsX == {Event(INPUT_EV_ABS, INPUT_ABS_X, v, s) : v \in WideSamplesX, s \in BOOLEAN}
WideAxisEventsY == {Event(INPUT_EV_ABS, INPUT_ABS_Y, v, s) : v \in WideSamplesY, s \in BOOLEAN}

DefaultConfig == [suppress_btn_touch |-> FALSE, suppress_btn0 |-> FALSE]

ContactStartEvent == Event(INPUT_EV_KEY, INPUT_BTN_TOUCH, 1, TRUE)

InitAxis ==
    LET r == absolute_to_relative_handle_event(DefaultConfig, InitialData, ContactStartEvent)
    IN  /\ config = DefaultConfig
        /\ data = r.data
        /\ twin = r.data
        /\ last = [in |-> ContactStartEvent, out |-> r.event, ret |-> r.ret,
                   calls |-> r.calls]
        /\ hist = [x |-> <<>>, y |-> <<>>]
        /\ restarted = FALSE
        /\ rearmed = FALSE

WideSampleX == \E e \in WideAxisEventsX : Deliver(e)
WideSampleY == \E e \in WideAxisEventsY : Deliver(e)

NextAxis == WideSampleX \/ WideSampleY

SpecAxis == InitAxis /\ [][NextAxis]_vars

TypeOK ==
    /\ config \in Configs
    /\ data.touching \in BOOLEAN
    /\ data.previous_x \in 0..65535
    /\ data.previous_y \in 0..65535
    /\ data.previous_dx \in -32768..32767
    /\ data.previous_dy \in -32768..32767
    /\ last.ret \in {ZMK_INPUT_PROC_CONTINUE, ZMK_INPUT_PROC_STOP}

----------------------------------------------------------------------------
(* Vocabulary of the properties *)

\* the event came out marked suppressed: invalid code, sync cleared, rest as it was
MarkedSuppressed(in, out) ==
    out = [in EXCEPT !.code = COORD_INVALID_ZERO, !.sync = FALSE]

IsRelative(e, rel_code) == e.type = INPUT_EV_REL /\ e.code = rel_code

AxisState(d) == <<d.previous_x, d.previous_dx, d.previous_y, d.previous_dy>>

ResetAxisState == <<COORD_UNINITIALIZED, 0, COORD_UNINITIALIZED, 0>>

CallCount(calls, f) == Cardinality({i \in 1..Len(calls) : calls[i] = f})

\* signed 16-bit difference of two positions
Diff16(a, b) == ToInt16(a - b)

----------------------------------------------------------------------------
(* Properties *)

\* C1: while touching, the first AbsoluteX sample and the first AbsoluteY sample
\* since the contact-start each return Stop, come out marked suppressed (never
\* as a relative event), and the sample's value becomes that axis's last
\* position with last delta 0; the other axis is not touched, whatever it has
\* already received.
C1_FirstSampleSuppressed ==
    [][ /\ (data.touching /\ IsAxisX(last'.in) /\ hist.x = <<>>) =>
              /\ last'.ret = ZMK_INPUT_PROC_STOP
              /\ MarkedSuppressed(last'.in, last'.out)
              /\ ~IsRelative(last'.out, INPUT_REL_X)
              /\ data'.previous_x = last'.in.value
              /\ data'.previous_dx = 0
              /\ data'.previous_y = data.previous_y
              /\ data'.previous_dy = data.previous_dy
        /\ (data.touching /\ IsAxisY(last'.in) /\ hist.y = <<>>) =>
              /\ last'.ret = ZMK_INPUT_PROC_STOP
              /\ MarkedSuppressed(last'.in, last'.out)
              /\ ~IsRelative(last'.out, INPUT_REL_Y)
              /\ data'.previous_y = last'.in.value
              /\ data'.previous_dy = 0
              /\ data'.previous_x = data.previous_x
              /\ data'.previous_dx = data.previous_dx
      ]_vars

\* the first X sample of a contact was just suppressed after two Y samples
C1_Witness ==
    /\ data.touching
    /\ IsAxisX(last.in)
    /\ hist.x = <<last.in.value>>
    /\ Len(hist.y) = 2
    /\ last.ret = ZMK_INPUT_PROC_STOP
    /\ data.previous_x = last.in.value
    /\ data.previous_dx = 0
    /\ data.previous_dy # 0

\* C2: for samples p0, p1, p2 handled in that order on one axis of one contact,
\* p0 is suppressed, p1 is emitted as ((p1 - p0) + 0) >> 1 and p2 as
\* ((p2 - p1) + (p1 - p0)) >> 1, the differences being signed 16-bit values.
C2_SmoothedSequence ==
    [][ /\ (data.touching /\ IsAxisX(last'.in)) =>
              LET p == last'.in.value
              IN  /\ hist.x = <<>> =>
                        /\ last'.ret = ZMK_INPUT_PROC_STOP
                        /\ MarkedSuppressed(last'.in, last'.out)
                  /\ Len(hist.x) = 1 =>
                        /\ last'.ret = ZMK_INPUT_PROC_CONTINUE
                        /\ IsRelative(last'.out, INPUT_REL_X)
                        /\ last'.out.value = AShr1(Diff16(p, hist.x[1]) + 0)
                  /\ Len(hist.x) = 2 =>
                        /\ last'.ret = ZMK_INPUT_PROC_CONTINUE
                        /\ IsRelative(last'.out, INPUT_REL_X)
                        /\ last'.out.value =
                             AShr1(Diff16(p, hist.x[2]) + Diff16(hist.x[2], hist.x[1]))
        /\ (data.touching /\ IsAxisY(last'.in)) =>
              LET p == last'.in.value
              IN  /\ hist.y = <<>> =>
                        /\ last'.ret = ZMK_INPUT_PROC_STOP
                        /\ MarkedSuppressed(last'.in, last'.out)
                  /\ Len(hist.y) = 1 =>
                        /\ last'.ret = ZMK_INPUT_PROC_CONTINUE
                        /\ IsRelative(last'.out, INPUT_REL_Y)
                        /\ last'.out.value = AShr1(Diff16(p, hist.y[1]) + 0)
                  /\ Len(hist.y) = 2 =>
                        /\ last'.ret = ZMK_INPUT_PROC_CONTINUE
                        /\ IsRelative(last'.out, INPUT_REL_Y)
                        /\ last'.out.value =
                             AShr1(Diff16(p, hist.y[2]) + Diff16(hist.y[2], hist.y[1]))
      ]_vars

\* C3: a contact-start handled right after a contact-end leaves both axes
\* unset with delta 0 whatever was stored before, and the next sample handled
\* on each axis in that contact is suppressed and not emitted as motion; the
\* contact starts from the same axis state as a new instance, so nothing of
\* an earlier contact is left to enter a later value.
C3_RestartResetsHistory ==
    [][ /\ (IsContactEnd(last.in) /\ IsContactStart(last'.in)) =>
              /\ data'.touching
              /\ AxisState(data') = ResetAxisState
              /\ AxisState(data') = AxisState(InitialData)
              /\ restarted'
        /\ (restarted /\ IsAxisX(last'.in) /\ hist.x = <<>>) =>
              /\ last'.ret = ZMK_INPUT_PROC_STOP
              /\ MarkedSuppressed(last'.in, last'.out)
              /\ ~IsRelative(last'.out, INPUT_REL_X)
        /\ (restarted /\ IsAxisY(last'.in) /\ hist.y = <<>>) =>
              /\ last'.ret = ZMK_INPUT_PROC_STOP
              /\ MarkedSuppressed(last'.in, last'.out)
              /\ ~IsRelative(last'.out, INPUT_REL_Y)
      ]_vars

\* after a restart, X has been sampled twice and the first Y sample was just suppressed
C3_Witness ==
    /\ restarted
    /\ data.touching
    /\ IsAxisY(last.in)
    /\ last.ret = ZMK_INPUT_PROC_STOP
    /\ hist.y = <<last.in.value>>
    /\ Len(hist.x) = 2
    /\ data.previous_dx # 0

\* C4: while touching is false, from the creation of the instance on, every
\* AbsoluteX/AbsoluteY sample returns Continue with type, code, value and sync
\* as they came in, and the positions and deltas of both axes stay as they were.
C4_TransparentWithoutContact ==
    [][ (~data.touching /\ (IsAxisX(last'.in) \/ IsAxisY(last'.in))) =>
              /\ last'.ret = ZMK_INPUT_PROC_CONTINUE
              /\ last'.out = last'.in
              /\ AxisState(data') = AxisState(data)
              /\ last'.calls = <<>>
      ]_vars

\* a sample passed through after a contact that left a position and a delta behind
C4_Witness ==
    /\ ~data.touching
    /\ IsAxisX(last.in)
    /\ last.ret = ZMK_INPUT_PROC_CONTINUE
    /\ last.out = last.in
    /\ last.in.sync
    /\ data.previous_x # COORD_UNINITIALIZED
    /\ data.previous_x # last.in.value
    /\ data.previous_dx # 0

\* C5: with suppress_btn_touch set every contact event returns Stop and comes
\* out marked suppressed, with it clear every contact event returns Continue,
\* and after each event the instance data equals the data of the instance with
\* the opposite option that was handed the same events.
C5_SuppressionKeepsState ==
    /\ data = twin
    /\ IsContact(last.in) =>
          IF config.suppress_btn_touch
          THEN /\ last.ret = ZMK_INPUT_PROC_STOP
               /\ MarkedSuppressed(last.in, last.out)
          ELSE last.ret = ZMK_INPUT_PROC_CONTINUE

\* a suppressed contact-start has reset axes that held a position and a delta
C5_Witness ==
    /\ config.suppress_btn_touch
    /\ IsContactStart(last.in)
    /\ last.in.sync
    /\ last.ret = ZMK_INPUT_PROC_STOP
    /\ data.touching
    /\ restarted
    /\ AxisState(data) = ResetAxisState
    /\ data = twin

\* C6: the last position of an axis is unset if and only if no sample was
\* handled on that axis since the last reset (creation or contact-start).
C6_UnsetIffNoSample ==
    /\ (data.previous_x = COORD_UNINITIALIZED) <=> (hist.x = <<>>)
    /\ (data.previous_y = COORD_UNINITIALIZED) <=> (hist.y = <<>>)

\* C7: once a sample was handled on an axis in a contact, every later sample
\* on that axis of the contact returns Continue and comes out as a relative
\* event, not suppressed, whatever u16 value the samples carry.
C7_OnlyFirstSampleSuppressed ==
    [][ /\ (data.touching /\ IsAxisX(last'.in) /\ hist.x # <<>>) =>
              /\ last'.ret = ZMK_INPUT_PROC_CONTINUE
              /\ IsRelative(last'.out, INPUT_REL_X)
              /\ ~MarkedSuppressed(last'.in, last'.out)
        /\ (data.touching /\ IsAxisY(last'.in) /\ hist.y # <<>>) =>
              /\ last'.ret = ZMK_INPUT_PROC_CONTINUE
              /\ IsRelative(last'.out, INPUT_REL_Y)
              /\ ~MarkedSuppressed(last'.in, last'.out)
      ]_vars

\* C8 as stated: the axis state is reset exactly in the steps that take
\* touching from false to true, and a contact-end leaves it unchanged.
C8_ResetOnlyOnTransition ==
    [][ /\ CallCount(last'.calls, "touch_init") =
              (IF ~data.touching /\ data'.touching THEN 1 ELSE 0)
        /\ IsContactEnd(last'.in) => AxisState(data') = AxisState(data)
      ]_vars

\* C8: the axis state is reset exactly once per contact-start event (contact
\* signal with value 1), whether touching was false or already true, by no
\* other event, and a contact-end leaves positions and deltas unchanged.
C8_ResetOncePerContactStart ==
    [][ /\ CallCount(last'.calls, "touch_init") =
              (IF IsContactStart(last'.in) THEN 1 ELSE 0)
        /\ IsContactStart(last'.in) =>
              /\ data'.touching
              /\ AxisState(data') = ResetAxisState
              /\ hist' = [x |-> <<>>, y |-> <<>>]
        /\ IsContactEnd(last'.in) =>
              /\ ~data'.touching
              /\ AxisState(data') = AxisState(data)
              /\ hist' = hist
      ]_vars

\* a contact-end has left a stored position and delta in place
C8_Witness ==
    /\ IsContactEnd(last.in)
    /\ ~data.touching
    /\ Len(hist.x) = 2
    /\ data.previous_x # COORD_UNINITIALIZED
    /\ data.previous_dx # 0
    /\ CallCount(last.calls, "touch_init") = 0

\* C9: touching changes only when a contact signal is handled; no axis
\* sample, aux-button event or other event changes it, in any state.
C9_TouchingOnlyByContactSignal ==
    [][ ~IsContact(last'.in) => data'.touching = data.touching ]_vars

\* an axis sample and an aux button were handled in a contact that is still on
C9_Witness ==
    /\ data.touching
    /\ IsAux(last.in)
    /\ hist.x # <<>>
    /\ hist.y # <<>>

\* C10: an aux-button event returns Stop and comes out marked suppressed when
\* suppress_btn0 is set, and returns Continue unchanged when it is clear; in
\* both cases touching and the positions and deltas of both axes stay as they
\* were, in every state.
C10_AuxButton ==
    [][ IsAux(last'.in) =>
              /\ IF config.suppress_btn0
                 THEN /\ last'.ret = ZMK_INPUT_PROC_STOP
                      /\ MarkedSuppressed(last'.in, last'.out)
                 ELSE /\ last'.ret = ZMK_INPUT_PROC_CONTINUE
                      /\ last'.out = last'.in
              /\ data' = data
      ]_vars

\* a suppressed aux button inside a contact with stored axis state, contact
\* signals not being suppressed
C10_Witness ==
    /\ config.suppress_btn0
    /\ ~config.suppress_btn_touch
    /\ IsAux(last.in)
    /\ last.in.sync
    /\ last.ret = ZMK_INPUT_PROC_STOP
    /\ data.touching
    /\ data.previous_x # COORD_UNINITIALIZED
    /\ data.previous_dy # 0

\* C11: when an axis sample is emitted (touching, prior position known), the
\* event comes out as a relative event on the same axis (AbsoluteX as
\* RelativeX, AbsoluteY as RelativeY) whose value is the smoothed delta, its
\* sync flag as it came in, and the return code is Continue.
C11_EmitRewritesInPlace ==
    [][ /\ (data.touching /\ IsAxisX(last'.in) /\ data.previous_x # COORD_UNINITIALIZED) =>
              /\ last'.ret = ZMK_INPUT_PROC_CONTINUE
              /\ last'.out.type = INPUT_EV_REL
              /\ last'.out.code = INPUT_REL_X
              /\ last'.out.value =
                     AShr1(Diff16(last'.in.value, data.previous_x) + data.previous_dx)
              /\ last'.out.sync = last'.in.sync
        /\ (data.touching /\ IsAxisY(last'.in) /\ data.previous_y # COORD_UNINITIALIZED) =>
              /\ last'.ret = ZMK_INPUT_PROC_CONTINUE
              /\ last'.out.type = INPUT_EV_REL
              /\ last'.out.code = INPUT_REL_Y
              /\ last'.out.value =
                     AShr1(Diff16(last'.in.value, data.previous_y) + data.previous_dy)
              /\ last'.out.sync = last'.in.sync
      ]_vars

\* a Y sample with its sync flag set came out as RelativeY with a nonzero value
C11_Witness ==
    /\ data.touching
    /\ IsAxisY(last.in)
    /\ last.in.sync
    /\ last.out.sync
    /\ last.ret = ZMK_INPUT_PROC_CONTINUE
    /\ IsRelative(last.out, INPUT_REL_Y)
    /\ last.out.value # 0
    /\ hist.y = <<500, 498>>

\* an event that is no contact signal, no aux button and no X/Y sample
IsOther(e) == ~IsContact(e) /\ ~IsAux(e) /\ ~IsAxisX(e) /\ ~IsAxisY(e)

\* C12: an event that is neither a contact signal, an aux-button signal nor an
\* AbsoluteX/AbsoluteY sample (another key code, another absolute axis, another
\* event type) returns Continue, comes out as it went in and leaves the whole
\* instance data as it was, touching or not.
C12_OtherEventsUntouched ==
    [][ IsOther(last'.in) =>
              /\ last'.ret = ZMK_INPUT_PROC_CONTINUE
              /\ last'.out = last'.in
              /\ data' = data
              /\ last'.calls = <<>>
      ]_vars

\* an absolute event of another axis passed through during a contact in
\* which both axes hold a position
C12_Witness ==
    /\ data.touching
    /\ last.in.type = INPUT_EV_ABS
    /\ last.in.code = INPUT_ABS_Z
    /\ last.in.sync
    /\ last.out = last.in
    /\ last.ret = ZMK_INPUT_PROC_CONTINUE
    /\ Len(hist.x) = 2
    /\ Len(hist.y) = 2
    /\ data.previous_dy # 0

\* value - last_position as a two's-complement 16-bit value, by cases
WrapDiff(a, b) ==
    LET d == a - b
    IN  IF d > 32767 THEN d - 65536
        ELSE IF d < -32768 THEN d + 65536
        ELSE d

\* o is sum / 2 rounded toward minus infinity
IsFloorHalf(o, sum) == 2 * o <= sum /\ sum <= 2 * o + 1

\* C13: the raw delta is value - last_position reduced to a signed 16-bit
\* value (differences outside the 16-bit range wrap) and the emitted value is
\* (raw delta + last delta) halved and rounded toward minus infinity: Y = 500
\* then 498 right after a reset stores raw delta -2 and emits -1, and a sum of
\* -3 emits -2.
C13_WrapAndFloor ==
    [][ /\ (data.touching /\ IsAxisX(last'.in) /\ data.previous_x # COORD_UNINITIALIZED) =>
              LET raw == WrapDiff(last'.in.value, data.previous_x)
                  sum == raw + data.previous_dx
              IN  /\ data'.previous_dx = raw
                  /\ IsFloorHalf(last'.out.value, sum)
                  /\ sum = -3 => last'.out.value = -2
        /\ (data.touching /\ IsAxisY(last'.in) /\ data.previous_y # COORD_UNINITIALIZED) =>
              LET raw == WrapDiff(last'.in.value, data.previous_y)
                  sum == raw + data.previous_dy
              IN  /\ data'.previous_dy = raw
                  /\ IsFloorHalf(last'.out.value, sum)
                  /\ sum = -3 => last'.out.value = -2
                  /\ (hist.y = <<500>> /\ last'.in.value = 498) =>
                        /\ raw = -2
                        /\ last'.out.value = -1
      ]_vars

\* Y = 500, 498, 497 has just emitted -2 for the sum -3, and X holds a raw
\* delta that wrapped (0 then 32768 stores -32768)
C13_Witness ==
    /\ IsAxisY(last.in)
    /\ hist.y = <<498, 497>>
    /\ data.previous_dy = -1
    /\ last.out.value = -2
    /\ hist.x = <<0, 32768>>
    /\ data.previous_dx = -32768

\* C14: in every state the last delta of an axis is the most recent raw delta
\* of that axis, the signed 16-bit difference of its two latest accepted
\* samples, or 0 when fewer than two samples were accepted since the last
\* reset; it is never a smoothed output.
C14_LastDeltaIsRawDelta ==
    /\ Len(hist.x) < 2 => data.previous_dx = 0
    /\ Len(hist.x) = 2 => data.previous_dx = Diff16(hist.x[2], hist.x[1])
    /\ Len(hist.y) < 2 => data.previous_dy = 0
    /\ Len(hist.y) = 2 => data.previous_dy = Diff16(hist.y[2], hist.y[1])

\* the event carries the mark of suppression: invalid code and sync cleared
HasSuppressMark(e) == e.code = COORD_INVALID_ZERO /\ ~e.sync

\* the handler put the mark on the event
WasMarked(in, out) == out # in /\ MarkedSuppressed(in, out)

\* C15: for every event in every state the return code is Stop if and only
\* if the handler marked the event suppressed (code rewritten to 0xFFF, sync
\* cleared); an event returned with Continue is never marked (it carries the
\* mark only if it came in with it), and a marked event keeps the type and the
\* value it came in with.
C15_StopIffMarked ==
    /\ (last.ret = ZMK_INPUT_PROC_STOP) <=> WasMarked(last.in, last.out)
    /\ last.ret = ZMK_INPUT_PROC_CONTINUE =>
          /\ ~WasMarked(last.in, last.out)
          /\ HasSuppressMark(last.out) => last.out = last.in
    /\ last.ret = ZMK_INPUT_PROC_STOP =>
          /\ HasSuppressMark(last.out)
          /\ last.out.type = last.in.type
          /\ last.out.value = last.in.value

\* a first X sample that came in with sync set and a valid code was stopped and marked
C15_Witness ==
    /\ IsAxisX(last.in)
    /\ last.in.sync
    /\ last.ret = ZMK_INPUT_PROC_STOP
    /\ HasSuppressMark(last.out)
    /\ last.out.type = INPUT_EV_ABS
    /\ last.out.value = last.in.value
    /\ last.out.value = 110

\* C16: a contact-start handled while touching is already true resets both
\* axes again to unset with delta 0, and the next sample handled on each axis
\* is suppressed instead of being emitted as motion from the earlier sample.
C16_StartWhileTouchingResets ==
    [][ /\ (data.touching /\ IsContactStart(last'.in)) =>
              /\ data'.touching
              /\ AxisState(data') = ResetAxisState
              /\ hist' = [x |-> <<>>, y |-> <<>>]
              /\ rearmed'
        /\ (rearmed /\ IsAxisX(last'.in) /\ hist.x = <<>>) =>
              /\ last'.ret = ZMK_INPUT_PROC_STOP
              /\ MarkedSuppressed(last'.in, last'.out)
              /\ ~IsRelative(last'.out, INPUT_REL_X)
              /\ data'.previous_dx = 0
        /\ (rearmed /\ IsAxisY(last'.in) /\ hist.y = <<>>) =>
              /\ last'.ret = ZMK_INPUT_PROC_STOP
              /\ MarkedSuppressed(last'.in, last'.out)
              /\ ~IsRelative(last'.out, INPUT_REL_Y)
              /\ data'.previous_dy = 0
      ]_vars

\* after a contact-start inside a contact, Y was sampled twice and the first
\* X sample has just been suppressed
C16_Witness ==
    /\ rearmed
    /\ ~restarted
    /\ data.touching
    /\ IsAxisX(last.in)
    /\ last.ret = ZMK_INPUT_PROC_STOP
    /\ hist.x = <<last.in.value>>
    /\ Len(hist.y) = 2
    /\ data.previous_dy # 0

\* C17: the sum of the raw delta and the last delta is formed without 16-bit
\* wraparound before the shift: every emitted value is exactly the floor of
\* (raw delta + last delta) / 2 and lies in -32768..32767, for the extreme
\* pairs too; raw delta = last delta = -32768 emits -32768, not 0.
C17_SumDoesNotWrap ==
    [][ /\ (data.touching /\ IsAxisX(last'.in) /\ data.previous_x # COORD_UNINITIALIZED) =>
              LET sum == data'.previous_dx + data.previous_dx
              IN  /\ last'.out.value \in -32768..32767
                  /\ 2 * last'.out.value \in {sum, sum - 1}
                  /\ (data'.previous_dx = -32768 /\ data.previous_dx = -32768) =>
                        last'.out.value = -32768
                  /\ (data'.previous_dx = 32767 /\ data.previous_dx = 32767) =>
                        last'.out.value = 32767
        /\ (data.touching /\ IsAxisY(last'.in) /\ data.previous_y # COORD_UNINITIALIZED) =>
              LET sum == data'.previous_dy + data.previous_dy
              IN  /\ last'.out.value \in -32768..32767
                  /\ 2 * last'.out.value \in {sum, sum - 1}
      ]_vars

\* X = 0, 32768, 0: both raw deltas are -32768 and -32768 was emitted
C17_Witness ==
    /\ IsAxisX(last.in)
    /\ hist.x = <<32768, 0>>
    /\ data.previous_dx = -32768
    /\ IsRelative(last.out, INPUT_REL_X)
    /\ last.out.value = -32768

\* C18: the axes are independent: handling an AbsoluteX sample leaves the
\* position, the delta and the accepted samples of Y as they were, handling
\* an AbsoluteY sample leaves those of X as they were, and what a sample
\* emits is decided by the stored position and delta of its own axis alone.
C18_AxesIndependent ==
    [][ /\ IsAxisX(last'.in) =>
              /\ data'.previous_y = data.previous_y
              /\ data'.previous_dy = data.previous_dy
              /\ hist'.y = hist.y
              /\ (data.touching /\ data.previous_x # COORD_UNINITIALIZED) =>
                    last'.out.value =
                       AShr1(Diff16(last'.in.value, data.previous_x) + data.previous_dx)
        /\ IsAxisY(last'.in) =>
              /\ data'.previous_x = data.previous_x
              /\ data'.previous_dx = data.previous_dx
              /\ hist'.x = hist.x
              /\ (data.touching /\ data.previous_y # COORD_UNINITIALIZED) =>
                    last'.out.value =
                       AShr1(Diff16(last'.in.value, data.previous_y) + data.previous_dy)
      ]_vars

\* a Y sample was emitted while X holds a position and a delta different from Y's
C18_Witness ==
    /\ data.touching
    /\ IsAxisY(last.in)
    /\ IsRelative(last.out, INPUT_REL_Y)
    /\ Len(hist.y) = 2
    /\ Len(hist.x) = 2
    /\ data.previous_dx # 0
    /\ data.previous_dx # data.previous_dy

\* C19: a contact-signal event is a contact-start only when its value is
\* exactly 1; with any other value (0, 2, negative) it is handled as a
\* contact-end: touching becomes false and the axis state is not reset.
C19_OnlyValueOneStarts ==
    [][ IsContact(last'.in) =>
              IF last'.in.value = 1
              THEN /\ data'.touching
                   /\ Called(last'.calls, "touch_init")
                   /\ AxisState(data') = ResetAxisState
              ELSE /\ ~data'.touching
                   /\ ~Called(last'.calls, "touch_init")
                   /\ AxisState(data') = AxisState(data)
      ]_vars

\* a contact signal of value 2 has ended a contact and left the stored state in place
C19_Witness ==
    /\ IsContact(last.in)
    /\ last.in.value = 2
    /\ ~data.touching
    /\ Len(hist.x) = 2
    /\ data.previous_x # COORD_UNINITIALIZED
    /\ data.previous_dx # 0
====
